---- MODULE Spec2Model ----
(***************************************************************************)
(* Model of setup-python-env.js: the provisioning driver that locates a    *)
(* Python interpreter, creates a virtual environment, upgrades pip,        *)
(* installs easyocr / torch / torchvision and pre-downloads the EasyOCR    *)
(* models through a temporary driver script.                               *)
(*                                                                         *)
(* The Node.js runtime is modelled by its observable rules: a child        *)
(* process delivers 'data' events, then one 'close' event; a command that  *)
(* cannot be spawned delivers an 'error' event and then a 'close' event;   *)
(* an 'error' event emitted on an emitter without an 'error' listener is   *)
(* thrown as an uncaught exception, which ends the process with code 1;    *)
(* a settled promise ignores later resolve/reject calls; the continuation  *)
(* of an await runs in a later turn than the settlement.                   *)
(***************************************************************************)
EXTENDS Integers, Sequences, FiniteSets, TLC

\* ------------------------------------------------------------------ bounds
\* longest output of a lookup command, in characters
MaxLen == 2
\* most 'data' events one child delivers (stdout and stderr together)
MaxChunks == 2

\* ------------------------------------------------------------ text helpers
\* "p" stands for any non-whitespace character of a path
Chars == {"p", "sp", "nl"}
Whitespace == {"sp", "nl"}
Strings == UNION {[1..k -> Chars] : k \in 0..MaxLen}
\* the chunks a 'data' event can carry
Chunks == {<<"a">>, <<"b">>}

RECURSIVE TrimStart(_)
TrimStart(s) ==
  IF s = <<>> THEN s
  ELSE IF Head(s) \in Whitespace THEN TrimStart(Tail(s)) ELSE s

RECURSIVE TrimEnd(_)
TrimEnd(s) ==
  IF s = <<>> THEN s
  ELSE IF s[Len(s)] \in Whitespace THEN TrimEnd(SubSeq(s, 1, Len(s) - 1)) ELSE s

\* String.prototype.trim() as used on the lookup output
Trim(s) == TrimEnd(TrimStart(s))

RECURSIVE FirstLine(_)
\* output.split('\n')[0]
FirstLine(s) ==
  IF s = <<>> THEN s
  ELSE IF Head(s) = "nl" THEN <<>> ELSE <<Head(s)>> \o FirstLine(Tail(s))

\* ---------------------------------------------------------- getPythonPath
\* the outcome of one execSync call: it threw (ok = FALSE) or returned out
LookupResults ==
  {[ran |-> TRUE, ok |-> FALSE, out |-> <<>>]}
    \cup {[ran |-> TRUE, ok |-> TRUE, out |-> s] : s \in Strings}
NotRun == [ran |-> FALSE, ok |-> FALSE, out |-> <<>>]

NotFoundMessage == "Python not found. Please install Python and add it to your PATH."

\* the Unix branch without the emptiness check
WhichPathUnchecked(r) ==
  IF r.ok THEN [found |-> TRUE, path |-> Trim(r.out)]
  ELSE [found |-> FALSE, path |-> <<>>]

\* lines 6-13: the path of the 'which' lookup, or nothing when it threw or
\* its trimmed output is empty
WhichPath(r) ==
  IF r.ok /\ Trim(r.out) # <<>>
  THEN [found |-> TRUE, path |-> Trim(r.out)]
  ELSE [found |-> FALSE, path |-> <<>>]

\* the Windows branch returning whatever the first line holds
WherePathUnchecked(r) ==
  IF r.ok THEN [found |-> TRUE, path |-> Trim(FirstLine(r.out))]
  ELSE [found |-> FALSE, path |-> <<>>]

\* lines 15-23: the path of the 'where' lookup, or nothing
WherePath(r) ==
  IF r.ok /\ Trim(FirstLine(r.out)) # <<>>
  THEN [found |-> TRUE, path |-> Trim(FirstLine(r.out))]
  ELSE [found |-> FALSE, path |-> <<>>]

\* ------------------------------------------------------------------ steps
requirementsSwapped == <<"torch", "easyocr", "torchvision">>

requirements == <<"easyocr", "torch", "torchvision">>

\* the awaited subprocess calls of setup(), in program order
Steps == <<"venv", "pip">> \o requirements \o <<"download">>
StepSet == {"venv", "pip", "easyocr", "torch", "torchvision", "download"}
LastInstall == Len(Steps) - 1

\* the codes a 'close' event can report: an exit code, or null after a signal
ExitCodes == {"0", "1", "null"}
\* the code reported by the 'close' event that follows a failed spawn
SpawnErrno == "ENOENT"

venvPythonPath(platform) ==
  IF platform = "win32" THEN "venv/Scripts/python.exe" ELSE "venv/bin/python"

\* ---------------------------------------------------------------- promises
Pending == [state |-> "pending", code |-> "none", stdout |-> <<>>, stderr |-> <<>>]
NoPromise == [state |-> "none", code |-> "none", stdout |-> <<>>, stderr |-> <<>>]

\* resolve()/reject() of a promise: only the first call has an effect
Settle(p, new) == IF p.state = "pending" THEN new ELSE p

\* a close handler that resolves whatever the code is
runCommandCloseAlwaysResolves(code) ==
  [state |-> "resolved", code |-> code, stdout |-> <<>>, stderr |-> <<>>]

\* runCommand, lines 30-36: the 'close' listener
runCommandClose(code) ==
  IF code # "0"
  THEN [state |-> "rejected", code |-> code, stdout |-> <<>>, stderr |-> <<>>]
  ELSE [state |-> "resolved", code |-> code, stdout |-> <<>>, stderr |-> <<>>]

\* runCommandWithOutput, lines 54-56: the 'close' listener
runCommandWithOutputClose(code, out, err) ==
  [state |-> "resolved", code |-> code, stdout |-> out, stderr |-> err]

\* runCommandWithOutput, lines 58-60: the 'error' listener
runCommandWithOutputError ==
  [state |-> "rejected", code |-> "error", stdout |-> <<>>, stderr |-> <<>>]

\* a data listener that keeps only the last chunk
OnDataOverwrite(buffer, data) == data

\* lines 46-52: stdout += data.toString() / stderr += data.toString()
OnData(buffer, data) == buffer \o data

\* the listeners each runner registers on the child
HasErrorListener(step) == step = "download"

\* a continuation that does not wait for the promise
AwaitNotWaiting(p) == TRUE

\* await: the continuation runs once the promise is settled
AwaitReady(p) == p.state # "pending"

\* an unlink that is never attempted
CleanupSkipped(exists, unlinkOk) == exists

\* lines 97-104: fs.unlinkSync in the finally block, errors ignored
Cleanup(exists, unlinkOk) == IF unlinkOk THEN FALSE ELSE exists

\* a catch block that rethrows
DownloadCatchRethrows(failed) == failed

\* lines 105-108: the outer catch of downloadEasyOCRModels swallows the error;
\* TRUE when the error leaves downloadEasyOCRModels
DownloadCatch(failed) == FALSE

VARIABLES
  pc,          \* position of the main control flow
  platform,    \* process.platform
  unixRes,     \* outcome of execSync('which python3 || which python')
  winRes,      \* outcome of execSync('where python')
  pythonPath,  \* the resolved interpreter path
  thrown,      \* message of the error getPythonPath threw, or "none"
  cur,         \* index in Steps of the call setup() is awaiting
  child,       \* per step: the state of its child process
  promise,     \* per step: the promise its runner returned
  closeCode,   \* per step: the code its 'close' event reported, or "none"
  started,     \* the spawn calls made so far, in order
  stdout,      \* runCommandWithOutput: the stdout buffer
  stderr,      \* runCommandWithOutput: the stderr buffer
  arrived,     \* the 'data' events delivered so far, in order
  written,     \* outcome of fs.writeFileSync: "none", "ok", "failed"
  unlinked,    \* outcome of fs.unlinkSync: "none", "ok", "failed"
  fileExists,  \* download_models_temp.py is on disk
  log,         \* the console messages printed so far
  exitCode     \* "none" while running, else the process exit code

vars == <<pc, platform, unixRes, winRes, pythonPath, thrown, cur, child, promise,
          closeCode, started, stdout, stderr, arrived, written, unlinked, fileExists, log,
          exitCode>>

lookupVars == <<unixRes, winRes, pythonPath, thrown>>
ioVars == <<stdout, stderr, arrived>>
fileVars == <<written, unlinked, fileExists>>

Init ==
  /\ pc = "getPythonPath"
  /\ platform \in {"linux", "win32"}
  /\ unixRes = NotRun
  /\ winRes = NotRun
  /\ pythonPath = <<>>
  /\ thrown = "none"
  /\ cur = 0
  /\ child = [s \in StepSet |-> "unstarted"]
  /\ promise = [s \in StepSet |-> NoPromise]
  /\ closeCode = [s \in StepSet |-> "none"]
  /\ started = <<>>
  /\ stdout = <<>>
  /\ stderr = <<>>
  /\ arrived = <<>>
  /\ written = "none"
  /\ unlinked = "none"
  /\ fileExists = FALSE
  /\ log = <<>>
  /\ exitCode = "none"

Running == {s \in StepSet : child[s] = "running"}
\* events the event loop still has to deliver
PendingEvents == {s \in StepSet : child[s] \in {"running", "spawnfail", "errored"}}

\* spawn(command, args) inside a runner: the child starts, or the spawn fails
\* and an 'error' event is queued; the runner returns a pending promise
Spawn(i, cmd, ok) ==
  /\ child' = [child EXCEPT ![Steps[i]] = IF ok THEN "running" ELSE "spawnfail"]
  /\ promise' = [promise EXCEPT ![Steps[i]] = Pending]
  /\ started' = Append(started, [step |-> Steps[i], cmd |-> cmd])
  /\ cur' = i

\* the command each step runs
Command(i) == IF i = 1 THEN pythonPath ELSE venvPythonPath(platform)

\* lines 6-13 of getPythonPath
UnixLookup ==
  /\ pc = "getPythonPath"
  /\ \E r \in LookupResults :
       /\ unixRes' = r
       /\ IF WhichPath(r).found
          THEN pythonPath' = WhichPath(r).path /\ pc' = "setup"
          ELSE pythonPath' = pythonPath /\ pc' = "where"
  /\ UNCHANGED <<platform, winRes, thrown, cur, child, promise, closeCode, started, ioVars,
                 fileVars, log, exitCode>>

\* lines 14-23 of getPythonPath
WhereLookup ==
  /\ pc = "where"
  /\ \E r \in LookupResults :
       /\ winRes' = r
       /\ IF WherePath(r).found
          THEN pythonPath' = WherePath(r).path /\ pc' = "setup" /\ thrown' = thrown
          ELSE pythonPath' = pythonPath /\ pc' = "toplevel_catch"
               /\ thrown' = NotFoundMessage
  /\ UNCHANGED <<platform, unixRes, cur, child, promise, closeCode, started, ioVars,
                 fileVars, log, exitCode>>

\* lines 164-167: the top-level catch
TopLevelCatch ==
  /\ pc = "toplevel_catch"
  /\ log' = Append(log, "Error")
  /\ exitCode' = "1"
  /\ pc' = "exited"
  /\ UNCHANGED <<platform, lookupVars, cur, child, promise, closeCode, started, ioVars,
                 fileVars>>

\* lines 121-128: setup() up to its first await
SetupStart ==
  /\ pc = "setup"
  /\ \E ok \in BOOLEAN : Spawn(1, Command(1), ok)
  /\ log' = log \o <<"Setting up", "Using Python", "Creating venv">>
  /\ pc' = "await"
  /\ UNCHANGED <<platform, lookupVars, closeCode, ioVars, fileVars, exitCode>>

\* the 'close' listener of the runner that started step s
CloseHandler(s, code) ==
  IF s = "download"
  THEN Settle(promise[s], runCommandWithOutputClose(code, stdout, stderr))
  ELSE Settle(promise[s], runCommandClose(code))

\* lines 46-52: a 'data' event of the captured child, on stdout or on stderr
ChildData ==
  /\ pc # "exited"
  /\ child["download"] = "running"
  /\ Len(arrived) < MaxChunks
  /\ \E stream \in {"stdout", "stderr"}, data \in Chunks :
       /\ arrived' = Append(arrived, [stream |-> stream, data |-> data])
       /\ stdout' = IF stream = "stdout" THEN OnData(stdout, data) ELSE stdout
       /\ stderr' = IF stream = "stderr" THEN OnData(stderr, data) ELSE stderr
  /\ UNCHANGED <<pc, platform, lookupVars, cur, child, promise, closeCode, started,
                 fileVars, log, exitCode>>

\* lines 30-36 and 54-56: the 'close' event of a child that ran
ChildClose ==
  /\ pc # "exited"
  /\ \E s \in Running, code \in ExitCodes :
       /\ child' = [child EXCEPT ![s] = "closed"]
       /\ closeCode' = [closeCode EXCEPT ![s] = code]
       /\ promise' = [promise EXCEPT ![s] = CloseHandler(s, code)]
  /\ UNCHANGED <<pc, platform, lookupVars, cur, started, ioVars, fileVars, log,
                 exitCode>>

\* the 'error' event of a command that could not be spawned: lines 58-60
\* reject the promise of runCommandWithOutput; runCommand (lines 27-38)
\* registers no 'error' listener, so the event is thrown as an uncaught
\* exception and the process ends with code 1
ChildError ==
  /\ pc # "exited"
  /\ \E s \in StepSet :
       /\ child[s] = "spawnfail"
       /\ IF HasErrorListener(s)
          THEN /\ child' = [child EXCEPT ![s] = "errored"]
               /\ promise' = [promise EXCEPT ![s] =
                                Settle(promise[s], runCommandWithOutputError)]
               /\ UNCHANGED <<pc, log, exitCode>>
          ELSE /\ child' = [child EXCEPT ![s] = "failed"]
               /\ log' = Append(log, "Uncaught exception")
               /\ exitCode' = "1"
               /\ pc' = "exited"
               /\ UNCHANGED promise
  /\ UNCHANGED <<platform, lookupVars, cur, closeCode, started, ioVars, fileVars>>

\* lines 54-56: the 'close' event that follows the 'error' event
ChildCloseAfterError ==
  /\ pc # "exited"
  /\ \E s \in StepSet :
       /\ child[s] = "errored"
       /\ child' = [child EXCEPT ![s] = "closed"]
       /\ closeCode' = [closeCode EXCEPT ![s] = SpawnErrno]
       /\ promise' = [promise EXCEPT ![s] = CloseHandler(s, SpawnErrno)]
  /\ UNCHANGED <<pc, platform, lookupVars, cur, started, ioVars, fileVars, log,
                 exitCode>>

InstallMessage(i) ==
  IF Steps[i] = "pip" THEN "Upgrading pip" ELSE "Installing " \o Steps[i]

\* lines 128-143: an awaited runCommand resolved and setup() starts the next one
ResumeInstall ==
  /\ pc = "await"
  /\ cur < LastInstall
  /\ AwaitReady(promise[Steps[cur]])
  /\ promise[Steps[cur]].state # "rejected"
  /\ \E ok \in BOOLEAN : Spawn(cur + 1, Command(cur + 1), ok)
  /\ log' = Append(log, InstallMessage(cur + 1))
  /\ UNCHANGED <<pc, platform, lookupVars, closeCode, ioVars, fileVars, exitCode>>

\* lines 157-160: the catch block of setup()
SetupCatch ==
  /\ \/ pc = "await" /\ promise[Steps[cur]].state = "rejected"
     \/ pc = "setup_throw"
  /\ log' = Append(log, "Error setting up Python environment")
  /\ exitCode' = "1"
  /\ pc' = "exited"
  /\ UNCHANGED <<platform, lookupVars, cur, child, promise, closeCode, started,
                 ioVars, fileVars>>

\* lines 105-108: the messages of the outer catch of downloadEasyOCRModels
CatchMessages == <<"Error downloading EasyOCR models", "Warning: downloaded on first use">>

\* lines 145-148 and 64-88: the last install resolved; downloadEasyOCRModels
\* writes the driver script and starts it, or the write throws
StartDownload ==
  /\ pc = "await"
  /\ cur = LastInstall
  /\ AwaitReady(promise[Steps[cur]])
  /\ promise[Steps[cur]].state # "rejected"
  /\ unlinked' = unlinked
  /\ UNCHANGED <<platform, lookupVars, closeCode, ioVars, exitCode>>
  /\ \E writeOk \in BOOLEAN :
       IF writeOk
       THEN /\ written' = "ok"
            /\ fileExists' = TRUE
            /\ \E ok \in BOOLEAN : Spawn(cur + 1, Command(cur + 1), ok)
            /\ log' = log \o <<"Dependencies complete", "Downloading models">>
            /\ pc' = "dl_await"
       ELSE /\ written' = "failed"
            /\ fileExists' \in BOOLEAN
            /\ log' = log \o <<"Dependencies complete", "Downloading models">>
                          \o CatchMessages
            /\ pc' = IF DownloadCatch(TRUE) THEN "setup_throw" ELSE "dl_returned"
            /\ UNCHANGED <<cur, child, promise, started>>

\* lines 88-108: the awaited runCommandWithOutput settled; the result is
\* inspected, the finally block deletes the script, the outer catch logs
DownloadResume ==
  /\ pc = "dl_await"
  /\ AwaitReady(promise["download"])
  /\ LET p == promise["download"]
         failed == p.state # "resolved" \/ p.code # "0"
         inner == IF p.state # "resolved" THEN <<>>
                  ELSE IF p.code # "0" THEN <<"Error downloading models: stderr">>
                  ELSE <<"stdout", "EasyOCR models setup complete">>
     IN /\ \E unlinkOk \in BOOLEAN :
             /\ fileExists' = Cleanup(fileExists, unlinkOk)
             /\ unlinked' = IF unlinkOk THEN "ok" ELSE "failed"
        /\ log' = log \o inner \o (IF failed THEN CatchMessages ELSE <<>>)
        /\ pc' = IF failed /\ DownloadCatch(failed) THEN "setup_throw" ELSE "dl_returned"
  /\ UNCHANGED <<platform, lookupVars, cur, child, promise, closeCode, started,
                 ioVars, written, exitCode>>

ActivateMessage ==
  IF platform = "win32" THEN "venv/Scripts/activate.bat" ELSE "source venv/bin/activate"

\* lines 150-156: the end of setup()
SetupFinish ==
  /\ pc = "dl_returned"
  /\ log' = log \o <<"Python environment setup complete!", ActivateMessage>>
  /\ pc' = "done"
  /\ UNCHANGED <<platform, lookupVars, cur, child, promise, closeCode, started,
                 ioVars, fileVars, exitCode>>

\* nothing is left to run: the process ends with code 0
NaturalExit ==
  /\ pc = "done"
  /\ PendingEvents = {}
  /\ exitCode' = "0"
  /\ pc' = "exited"
  /\ UNCHANGED <<platform, lookupVars, cur, child, promise, closeCode, started,
                 ioVars, fileVars, log>>

Next ==
  \/ UnixLookup
  \/ WhereLookup
  \/ TopLevelCatch
  \/ SetupStart
  \/ ChildData
  \/ ChildClose
  \/ ChildError
  \/ ChildCloseAfterError
  \/ ResumeInstall
  \/ SetupCatch
  \/ StartDownload
  \/ DownloadResume
  \/ SetupFinish
  \/ NaturalExit

Spec == Init /\ [][Next]_vars

\* every child eventually closes and the runtime runs every ready continuation
FairSpec == Spec /\ WF_vars(Next)

TypeOK ==
  /\ pc \in {"getPythonPath", "where", "toplevel_catch", "setup", "await", "dl_await",
             "dl_returned", "setup_throw", "done", "exited"}
  /\ cur \in 0..Len(Steps)
  /\ exitCode \in {"none", "0", "1"}
  /\ fileExists \in BOOLEAN

\* ------------------------------------------------------------------ claims
Installs == {"venv", "pip", "easyocr", "torch", "torchvision"}
FixedOrder == <<"venv", "pip", "easyocr", "torch", "torchvision", "download">>
StartedSteps == [i \in 1..Len(started) |-> started[i].step]
Position(s) == CHOOSE i \in 1..Len(FixedOrder) : FixedOrder[i] = s
\* the steps whose child closed with a non-zero exit code
NonZeroClosed == {s \in Installs : closeCode[s] \notin {"none", "0"}}
Printed(m) == \E i \in 1..Len(log) : log[i] = m
PrintedBefore(m, n) == \E i, j \in 1..Len(log) : i < j /\ log[i] = m /\ log[j] = n

C1_Safety ==
  \A s \in NonZeroClosed :
    /\ \A later \in StepSet : Position(later) > Position(s) => child[later] = "unstarted"
    /\ StartedSteps = SubSeq(FixedOrder, 1, Position(s))
    /\ exitCode # "0"
    /\ ~Printed("Python environment setup complete!")

\* C1: when the child of venv creation, of the pip upgrade or of a package
\* install closes with a non-zero exit code, no later install and no model
\* download is ever started, and the process exits with code 1.
C1_FatalStepStopsSetup ==
  /\ []C1_Safety
  /\ \A s \in Installs : (closeCode[s] \notin {"none", "0"}) ~> (exitCode = "1")

C1_Witness ==
  /\ closeCode["torch"] = "1"
  /\ pc = "exited"
  /\ exitCode = "1"
  /\ child["torchvision"] = "unstarted"

AllInstallsOk == \A s \in Installs : promise[s].state = "resolved"
\* the three ways the model-download step fails
DownloadFailed ==
  \/ written = "failed"
  \/ promise["download"].state = "rejected"
  \/ promise["download"].state = "resolved" /\ promise["download"].code # "0"

C2_Safety ==
  AllInstallsOk /\ DownloadFailed =>
    /\ exitCode # "1"
    /\ pc # "setup_throw"
    /\ pc \in {"dl_returned", "done", "exited"} => Printed("Warning: downloaded on first use")
    /\ pc \in {"done", "exited"} =>
         PrintedBefore("Warning: downloaded on first use", "Python environment setup complete!")
    /\ pc = "exited" => exitCode = "0"

\* C2: after all installs succeeded, a failing model download (non-zero exit
\* of the driver script, failed spawn, failed write of the script) never
\* ends the process with code 1: the warning is printed, then the
\* 'Python environment setup complete!' message, and the exit code is 0.
C2_DownloadFailureNotFatal ==
  /\ []C2_Safety
  /\ (AllInstallsOk /\ DownloadFailed) ~> (exitCode = "0")

C2_Witness ==
  /\ AllInstallsOk
  /\ promise["download"].state = "resolved"
  /\ promise["download"].code = "1"
  /\ pc = "exited"
  /\ exitCode = "0"

\* downloadEasyOCRModels has completed a run in which it wrote the script
DownloadCompleted == unlinked # "none" /\ pc \in {"dl_returned", "done", "exited"}

\* C3 as stated: after downloadEasyOCRModels completes the temporary script is
\* not on disk, on every path, also when the delete call raised.
C3_FileAbsentOnEveryPath == DownloadCompleted => ~fileExists

\* C3 amended: after downloadEasyOCRModels completes, the temporary script is
\* not on disk whenever the delete call succeeded (script exited 0, exited
\* non-zero, or could not be spawned); an error of the delete call is
\* swallowed and setup goes on, but the file is then not known to be gone.
C3_FileAbsentUnlessUnlinkFails ==
  DownloadCompleted =>
    /\ unlinked = "ok" => ~fileExists
    /\ pc # "setup_throw"
    /\ exitCode # "1"

C3_Witness ==
  /\ DownloadCompleted
  /\ unlinked = "ok"
  /\ promise["download"].state = "rejected"
  /\ ~fileExists

UnixYields == unixRes.ok /\ Trim(unixRes.out) # <<>>
WinYields == winRes.ok /\ Trim(FirstLine(winRes.out)) # <<>>
NeitherYields == unixRes.ran /\ winRes.ran /\ ~UnixYields /\ ~WinYields

C4_Safety ==
  NeitherYields =>
    /\ thrown = NotFoundMessage
    /\ started = <<>>
    /\ \A s \in StepSet : child[s] = "unstarted"
    /\ pc \in {"toplevel_catch", "exited"}
    /\ pc = "exited" => exitCode = "1"

\* C4: when neither lookup yields a non-empty path, getPythonPath fails with
\* the 'Python not found' error, the process exits with code 1 and no
\* subprocess of environment creation or of a later step is ever spawned.
C4_NotFoundIsFatal ==
  /\ []C4_Safety
  /\ NeitherYields ~> (exitCode = "1")

C4_Witness ==
  /\ NeitherYields
  /\ unixRes.ok
  /\ unixRes.out # <<>>
  /\ pc = "exited"
  /\ exitCode = "1"
  /\ started = <<>>

\* C5 as stated: runCommand settles its promise for every way the child can
\* end: resolved exactly when the child closed with code 0, rejected with the
\* code otherwise (non-zero code, null after a signal, failed spawn).
C5_RunCommandAlwaysSettles ==
  \A s \in Installs :
    child[s] \in {"closed", "failed"} =>
      IF closeCode[s] = "0"
      THEN promise[s].state = "resolved"
      ELSE promise[s].state = "rejected"

RECURSIVE Concat(_, _)
\* the chunks of one stream, joined in arrival order
Concat(events, stream) ==
  IF events = <<>> THEN <<>>
  ELSE (IF Head(events).stream = stream THEN Head(events).data ELSE <<>>)
         \o Concat(Tail(events), stream)

ErrorDelivered == child["download"] = "errored" \/ closeCode["download"] = SpawnErrno

C6_Safety ==
  LET p == promise["download"] IN
    /\ closeCode["download"] \in ExitCodes =>
         /\ p.state = "resolved"
         /\ p.code = closeCode["download"]
         /\ p.stdout = Concat(arrived, "stdout")
         /\ p.stderr = Concat(arrived, "stderr")
    /\ p.state = "rejected" <=> ErrorDelivered

C6_SettledOnce ==
  promise["download"].state \in {"resolved", "rejected"} =>
    promise'["download"] = promise["download"]

\* C6: runCommandWithOutput resolves with the exit code and with all stdout
\* chunks and all stderr chunks joined in arrival order, whatever the exit
\* code; it rejects only on an 'error' event; its promise is settled once,
\* also when an 'error' and a 'close' event are both delivered.
C6_CapturedRunner == []C6_Safety /\ [][C6_SettledOnce]_vars

C6_Witness ==
  /\ closeCode["download"] = "1"
  /\ Len(Concat(arrived, "stdout")) >= 2
  /\ promise["download"].stdout = Concat(arrived, "stdout")

\* C7: at most one child subprocess runs at any time, and every step's child
\* has closed before the next step's child is spawned.
C7_OneChildAtATime ==
  /\ Cardinality(Running) <= 1
  /\ \A i \in 1..(Len(started) - 1) : child[started[i].step] = "closed"

C7_Witness ==
  /\ Len(started) = 6
  /\ child["download"] = "running"
  /\ \A s \in Installs : child[s] = "closed"

GetPythonPathDone == pc \notin {"getPythonPath", "where"}
Returned(path) == thrown = "none" /\ pythonPath = path

\* C8 as stated: the Unix lookup's trimmed output is returned whenever that
\* lookup succeeds with non-empty output, the Windows lookup runs only when
\* the Unix lookup errors or returns empty output, and the 'not found' error
\* is raised exactly when both lookups error or return empty output.
C8_EmptyMeansNoOutput ==
  GetPythonPathDone =>
    /\ unixRes.ok /\ unixRes.out # <<>> => Returned(Trim(unixRes.out)) /\ ~winRes.ran
    /\ winRes.ran <=> ~(unixRes.ok /\ unixRes.out # <<>>)
    /\ winRes.ran /\ winRes.ok /\ winRes.out # <<>> =>
         Returned(Trim(FirstLine(winRes.out)))
    /\ thrown # "none" <=>
         /\ ~(unixRes.ok /\ unixRes.out # <<>>)
         /\ ~(winRes.ok /\ winRes.out # <<>>)

\* C8 amended: "empty" is judged after trimming. The Unix lookup's trimmed
\* output is returned whenever that lookup succeeds and its trimmed output is
\* non-empty; only otherwise the Windows lookup runs, and the trimmed first
\* line of its output is returned when that is non-empty; the 'not found'
\* error is raised exactly when each lookup errors or gives an empty trimmed
\* result (for the Windows lookup: an empty trimmed first line).
C8_EmptyMeansEmptyAfterTrim ==
  GetPythonPathDone =>
    /\ UnixYields => Returned(Trim(unixRes.out)) /\ ~winRes.ran
    /\ winRes.ran <=> ~UnixYields
    /\ winRes.ran /\ WinYields => Returned(Trim(FirstLine(winRes.out)))
    /\ thrown = NotFoundMessage <=> ~UnixYields /\ ~WinYields
    /\ thrown \in {"none", NotFoundMessage}

C8_Witness ==
  /\ GetPythonPathDone
  /\ unixRes.ok
  /\ unixRes.out = <<"sp">>
  /\ winRes.out = <<"p", "nl">>
  /\ Returned(<<"p">>)

\* C9: the subprocesses start in the order venv, pip, easyocr, torch,
\* torchvision, model download, each at most once; a step starts only after
\* every earlier step succeeded, the model download only after all three
\* installs exited with code 0.
C9_FixedOrderNoRetry ==
  /\ StartedSteps = SubSeq(FixedOrder, 1, Len(started))
  /\ \A i \in 1..(Len(started) - 1) :
       /\ closeCode[started[i].step] = "0"
       /\ promise[started[i].step].state = "resolved"

C9_Witness ==
  /\ Len(started) = 6
  /\ \A s \in {"easyocr", "torch", "torchvision"} : closeCode[s] = "0"

\* C10 as stated: when every child eventually closes or fails to spawn, the
\* process ends either with code 1 after a fatal step failure or with the
\* 'setup complete' message and code 0, and no promise stays pending, also
\* when a command of runCommand cannot be spawned.
C10_TerminatesAllSettled ==
  /\ <>(pc = "exited")
  /\ [](pc = "exited" =>
          /\ \A s \in StepSet : promise[s].state # "pending"
          /\ \/ exitCode = "1"
             \/ exitCode = "0" /\ Printed("Python environment setup complete!"))
====
